---- MODULE Spec2Model ----
(***************************************************************************)
(* Registration and login server actions of the job portal                 *)
(* (src/src/features/auth/server/auth.action.tsx) together with the zod    *)
(* rule sets they validate with (src/src/features/auth/auth.schema.ts).    *)
(*                                                                         *)
(* A JavaScript string is a sequence of one-character strings; the value   *)
(* `undefined` (an absent field) is the one-element sequence Undefined and *)
(* `null` is Null: no sequence of characters equals either.                *)
(***************************************************************************)
EXTENDS Integers, Sequences, FiniteSets, TLC

\* ------------------------------------------------------------------------
\* Characters and string primitives
\* ------------------------------------------------------------------------

Undefined == <<"undefined">>

Null == <<"null">>

LowerSeq == <<"a","b","c","d","e","f","g","h","i","j","k","l","m",
              "n","o","p","q","r","s","t","u","v","w","x","y","z">>

UpperSeq == <<"A","B","C","D","E","F","G","H","I","J","K","L","M",
              "N","O","P","Q","R","S","T","U","V","W","X","Y","Z">>

LowerChars == {LowerSeq[i] : i \in 1..26}

UpperChars == {UpperSeq[i] : i \in 1..26}

DigitChars == {"0","1","2","3","4","5","6","7","8","9"}

AlnumChars == LowerChars \cup UpperChars \cup DigitChars

\* what String.prototype.trim removes (the members the inputs use)
WhiteSpace == {" ", "\t", "\n", "\r"}

\* what "." of a regular expression does not match
LineTerminators == {"\n", "\r"}

IsString(v) == v # Undefined /\ v # Null

SetMin(S) == CHOOSE x \in S : \A y \in S : x <= y

SetMax(S) == CHOOSE x \in S : \A y \in S : y <= x

\* String.prototype.trim
Trim(s) ==
  LET keep == {i \in 1..Len(s) : s[i] \notin WhiteSpace}
  IN  IF keep = {} THEN <<>> ELSE SubSeq(s, SetMin(keep), SetMax(keep))

LowerChar(c) ==
  IF c \in UpperChars
    THEN LowerSeq[CHOOSE i \in 1..26 : UpperSeq[i] = c]
    ELSE c

\* String.prototype.toLowerCase
ToLowerCase(s) == [i \in 1..Len(s) |-> LowerChar(s[i])]

\* String.prototype.startsWith
StartsWith(s, c) == Len(s) >= 1 /\ s[1] = c

\* the part of s that ".*" can run over from position 1
FirstLine(s) ==
  LET brk == {i \in 1..Len(s) : s[i] \in LineTerminators}
  IN  IF brk = {} THEN s ELSE SubSeq(s, 1, SetMin(brk) - 1)

\* ------------------------------------------------------------------------
\* Rule sets (auth.schema.ts)
\* ------------------------------------------------------------------------

NameMin == 2

NameMax == 255

UserNameMin == 3

UserNameMax == 255

EmailMax == 255

PasswordMin == 8

MsgInvalidString == "Invalid input: expected string, received undefined"

MsgNameMin == "Name must be atleast 2 char long"

MsgNameMax == "Name must not excee 255 characters"

MsgUserNameMin == "Username must be atleast 3 characters long"

MsgUserNameMax == "Username must not exceed 255 characters"

MsgUserNameRegex == "Username  can only contain letters , numbers , underscores , and hyphens"

MsgEmailFormat == "Please enter a valid email address"

MsgEmailMax == "Email must not exceed 255 characters"

MsgPasswordMin == "Password must be atleast character long"

MsgPasswordRegex == "Password must contain at leaset one lowercase letter , one uppercase letter and one number"

MsgRole == "Role must be either an applicant or employer"

MsgConfirm == "Passwords don't match"

MsgLoginPasswordMin == "Password must be atlease 8 characters long"

Applicant == <<"a","p","p","l","i","c","a","n","t">>

Employer == <<"e","m","p","l","o","y","e","r">>

RoleValues == {Applicant, Employer}

Issue(path, message) == [path |-> path, message |-> message]

\* one check of a string rule: its issue when the condition fails
Check(ok, path, message) == IF ok THEN <<>> ELSE <<Issue(path, message)>>

\* the userName pattern without its end anchor, /^[a-zA-Z0-9_-]+/
UserNameRegexUnanchored(s) ==
  /\ Len(s) >= 1
  /\ s[1] \in AlnumChars \cup {"_", "-"}

\* /^[a-zA-Z0-9_-]+$/
UserNameRegex(s) ==
  /\ Len(s) >= 1
  /\ \A i \in 1..Len(s) : s[i] \in AlnumChars \cup {"_", "-"}

\* /^(?=.*[a-z])(?=.*[A-Z])(?=.*\d)/
PasswordRegex(s) ==
  LET l == FirstLine(s)
  IN  /\ \E i \in 1..Len(l) : l[i] \in LowerChars
      /\ \E i \in 1..Len(l) : l[i] \in UpperChars
      /\ \E i \in 1..Len(l) : l[i] \in DigitChars

\* local part of zod's email pattern: (?!\.)([A-Za-z0-9_'+\-\.]*)[A-Za-z0-9_+-]
EmailLocalOk(l) ==
  /\ Len(l) >= 1
  /\ l[1] # "."
  /\ \A i \in 1..Len(l) : l[i] \in AlnumChars \cup {"_", "'", "+", "-", "."}
  /\ l[Len(l)] \in AlnumChars \cup {"_", "+", "-"}

\* domain part of zod's email pattern: ([A-Za-z0-9][A-Za-z0-9\-]*\.)+[A-Za-z]{2,}
EmailDomainOk(d) ==
  LET dots == {i \in 1..Len(d) : d[i] = "."}
  IN  /\ dots # {}
      /\ LET last == SetMax(dots)
         IN  /\ Len(d) - last >= 2
             /\ \A i \in (last + 1)..Len(d) : d[i] \in LowerChars \cup UpperChars
             /\ \A i \in 1..last :
                  IF d[i] = "."
                    THEN i > 1 /\ d[i - 1] # "."
                    ELSE IF i = 1 \/ d[i - 1] = "."
                           THEN d[i] \in AlnumChars
                           ELSE d[i] \in AlnumChars \cup {"-"}

\* zod's email format check, (?!.*\.\.) included
EmailRegex(s) ==
  /\ \A i \in 1..(Len(s) - 1) : ~(s[i] = "." /\ s[i + 1] = ".")
  /\ \E k \in 1..Len(s) :
       /\ s[k] = "@"
       /\ EmailLocalOk(SubSeq(s, 1, k - 1))
       /\ EmailDomainOk(SubSeq(s, k + 1, Len(s)))

\* the name rule with both bounds exclusive
ParseNameExclusive(v) ==
  IF ~IsString(v)
    THEN [value |-> v, issues |-> <<Issue("name", MsgInvalidString)>>]
    ELSE LET t == Trim(v)
         IN  [value |-> t,
              issues |-> Check(Len(t) > NameMin, "name", MsgNameMin)
                         \o Check(Len(t) < NameMax, "name", MsgNameMax)]

\* name: z.string().trim().min(2).max(255)
ParseName(v) ==
  IF ~IsString(v)
    THEN [value |-> v, issues |-> <<Issue("name", MsgInvalidString)>>]
    ELSE LET t == Trim(v)
         IN  [value |-> t,
              issues |-> Check(Len(t) >= NameMin, "name", MsgNameMin)
                         \o Check(Len(t) <= NameMax, "name", MsgNameMax)]

\* userName: z.string().trim().min(3).max(255).regex(...)
ParseUserName(v) ==
  IF ~IsString(v)
    THEN [value |-> v, issues |-> <<Issue("userName", MsgInvalidString)>>]
    ELSE LET t == Trim(v)
         IN  [value |-> t,
              issues |-> Check(Len(t) >= UserNameMin, "userName", MsgUserNameMin)
                         \o Check(Len(t) <= UserNameMax, "userName", MsgUserNameMax)
                         \o Check(UserNameRegex(t), "userName", MsgUserNameRegex)]

\* ParseEmail with the format rule reading the submitted value, before trim
\* and toLowerCase
ParseEmailFormatFirst(v) ==
  IF ~IsString(v)
    THEN [value |-> v, issues |-> <<Issue("email", MsgInvalidString)>>]
    ELSE LET t == ToLowerCase(Trim(v))
         IN  [value |-> t,
              issues |-> Check(EmailRegex(v), "email", MsgEmailFormat)
                         \o Check(Len(t) <= EmailMax, "email", MsgEmailMax)]

\* email: z.string().trim().toLowerCase().email(...).max(255)
ParseEmail(v) ==
  IF ~IsString(v)
    THEN [value |-> v, issues |-> <<Issue("email", MsgInvalidString)>>]
    ELSE LET t == ToLowerCase(Trim(v))
         IN  [value |-> t,
              issues |-> Check(EmailRegex(t), "email", MsgEmailFormat)
                         \o Check(Len(t) <= EmailMax, "email", MsgEmailMax)]

\* ParsePassword with the pattern rule declared before the length rule
ParsePasswordRegexFirst(v) ==
  IF ~IsString(v)
    THEN [value |-> v, issues |-> <<Issue("password", MsgInvalidString)>>]
    ELSE [value |-> v,
          issues |-> Check(PasswordRegex(v), "password", MsgPasswordRegex)
                     \o Check(Len(v) >= PasswordMin, "password", MsgPasswordMin)]

\* password: z.string().min(8).regex(...)
ParsePassword(v) ==
  IF ~IsString(v)
    THEN [value |-> v, issues |-> <<Issue("password", MsgInvalidString)>>]
    ELSE [value |-> v,
          issues |-> Check(Len(v) >= PasswordMin, "password", MsgPasswordMin)
                     \o Check(PasswordRegex(v), "password", MsgPasswordRegex)]

\* a role rule that falls back to the default on every value outside the
\* enumeration (.catch("applicant") instead of .default("applicant"))
ParseRoleCatch(v) ==
  IF v \in RoleValues
    THEN [value |-> v, issues |-> <<>>]
    ELSE [value |-> Applicant, issues |-> <<>>]

\* role: z.enum(["applicant", "employer"], {error}).default("applicant")
ParseRole(v) ==
  IF v = Undefined
    THEN [value |-> Applicant, issues |-> <<>>]
    ELSE [value |-> v, issues |-> Check(v \in RoleValues, "role", MsgRole)]

\* registerUserSchema.safeParse with the rules checked and the submitted
\* values, not the transformed ones, handed on as data
SafeParseRegisterRawData(formData) ==
  LET n == ParseName(formData.name)
      u == ParseUserName(formData.userName)
      e == ParseEmail(formData.email)
      p == ParsePassword(formData.password)
      r == ParseRole(formData.role)
  IN  [data   |-> [name |-> formData.name, userName |-> formData.userName,
                   email |-> formData.email, password |-> formData.password,
                   role |-> formData.role],
       issues |-> n.issues \o u.issues \o e.issues \o p.issues \o r.issues]

\* registerUserSchema.safeParse: the fields in declaration order, the
\* issues of all of them concatenated, unknown keys stripped
SafeParseRegister(formData) ==
  LET n == ParseName(formData.name)
      u == ParseUserName(formData.userName)
      e == ParseEmail(formData.email)
      p == ParsePassword(formData.password)
      r == ParseRole(formData.role)
  IN  [data   |-> [name |-> n.value, userName |-> u.value, email |-> e.value,
                   password |-> p.value, role |-> r.value],
       issues |-> n.issues \o u.issues \o e.issues \o p.issues \o r.issues]

\* confirmPassword: z.string()
ParseConfirmPassword(v) ==
  [value |-> v,
   issues |-> Check(IsString(v), "confirmPassword", MsgInvalidString)]

\* the field issues that stop the checks declared after them: a value that
\* is not a string, a role outside the enumeration. The issues of min, max,
\* regex and email do not.
Aborted(formData) ==
  \/ ~IsString(formData.name)
  \/ ~IsString(formData.userName)
  \/ ~IsString(formData.email)
  \/ ~IsString(formData.password)
  \/ ParseRole(formData.role).issues # <<>>
  \/ ~IsString(formData.confirmPassword)

\* the refinement run only on a value that has no field issue at all
SafeParseRegisterWithConfirmAfterFields(formData) ==
  LET base == SafeParseRegister(formData)
      c == ParseConfirmPassword(formData.confirmPassword)
      fields == base.issues \o c.issues
  IN  [data   |-> [name |-> base.data.name, userName |-> base.data.userName,
                   email |-> base.data.email, password |-> base.data.password,
                   role |-> base.data.role, confirmPassword |-> c.value],
       issues |-> fields
                  \o Check(fields # <<>> \/ base.data.password = c.value,
                           "confirmPassword", MsgConfirm)]

\* registerUserWithConfirmSchema.safeParse: the fields of registerUserSchema,
\* then confirmPassword, then the refinement unless the value is aborted
SafeParseRegisterWithConfirm(formData) ==
  LET base == SafeParseRegister(formData)
      c == ParseConfirmPassword(formData.confirmPassword)
  IN  [data   |-> [name |-> base.data.name, userName |-> base.data.userName,
                   email |-> base.data.email, password |-> base.data.password,
                   role |-> base.data.role, confirmPassword |-> c.value],
       issues |-> base.issues \o c.issues
                  \o Check(Aborted(formData) \/ base.data.password = c.value,
                           "confirmPassword", MsgConfirm)]

\* loginUserSchema.password: z.string().min(8)
ParseLoginPassword(v) ==
  IF ~IsString(v)
    THEN [value |-> v, issues |-> <<Issue("password", MsgInvalidString)>>]
    ELSE [value |-> v,
          issues |-> Check(Len(v) >= PasswordMin, "password", MsgLoginPasswordMin)]

\* loginUserSchema.safeParse
SafeParseLogin(formData) ==
  LET e == ParseEmail(formData.email)
      p == ParseLoginPassword(formData.password)
  IN  [data   |-> [email |-> e.value, password |-> p.value],
       issues |-> e.issues \o p.issues]

\* ------------------------------------------------------------------------
\* Collaborators: argon2 and the users table
\* ------------------------------------------------------------------------

\* the salts argon2.hash may draw
Salts == {"s", "t"}

PhcPrefix == <<"$", "a", "2", "$">>

Reverse(s) == [i \in 1..Len(s) |-> s[Len(s) + 1 - i]]

\* the digest field of an encoded hash: a function of salt and plaintext
\* that no other (salt, plaintext) pair yields
Digest(salt, plain) == <<salt>> \o Reverse(plain) \o <<salt>>

\* a hash that uses one salt for every call
Argon2HashFixedSalt(plain, salt) ==
  PhcPrefix \o <<"s", "$">> \o Digest("s", plain)

\* argon2.hash(plain) with the salt it drew: "$a2$<salt>$<digest>"
Argon2Hash(plain, salt) == PhcPrefix \o <<salt, "$">> \o Digest(salt, plain)

\* the id field of a PHC string: what lies between the first "$" and the next
PhcId(digest) ==
  LET later == {i \in 2..Len(digest) : digest[i] = "$"}
  IN  IF later = {} THEN SubSeq(digest, 2, Len(digest))
                    ELSE SubSeq(digest, 2, SetMin(later) - 1)

\* @phc/format's id pattern, [a-z0-9-]{1,32}
PhcIdOk(id) ==
  /\ Len(id) >= 1
  /\ Len(id) <= 32
  /\ \A i \in 1..Len(id) : id[i] \in LowerChars \cup DigitChars \cup {"-"}

\* whether the string is a complete encoded argon2 hash
PhcDecodes(digest) ==
  /\ Len(digest) >= 6
  /\ SubSeq(digest, 1, 4) = PhcPrefix
  /\ digest[5] \in Salts
  /\ digest[6] = "$"

\* argon2.verify used without await: the pending promise counts as true
Argon2VerifyNotAwaited(digest, plain) == "true"

\* argon2.verify(digest, plain): raises when the digest does not deserialize
\* (no leading "$", a bad id, an argon2 id without its fields), is false for
\* the hash of another algorithm, and else tells whether hashing plain with
\* the digest's salt gives the digest
Argon2Verify(digest, plain) ==
  IF ~StartsWith(digest, "$") \/ ~PhcIdOk(PhcId(digest)) THEN "raise"
  ELSE IF PhcId(digest) # <<"a", "2">> THEN "false"
  ELSE IF ~PhcDecodes(digest) THEN "raise"
  ELSE IF Argon2Hash(plain, digest[5]) = digest THEN "true"
  ELSE "false"

\* the duplicate query with "and" in place of "or"
SelectByEmailAndUserName(table, email, userName) ==
  {r \in table : r.email = email /\ r.userName = userName}

\* db.select().from(users).where(or(eq(users.email, email), eq(users.userName, userName)))
SelectByEmailOrUserName(table, email, userName) ==
  {r \in table : r.email = email \/ r.userName = userName}

\* db.select().from(users).where(eq(users.email, email))
SelectByEmail(table, email) == {r \in table : r.email = email}

\* a users table with a unique constraint on email alone
UniqueViolationEmailOnly(table, rec) ==
  \E r \in table : r.email = rec.email

\* the unique constraints of the users table on email and on userName
UniqueViolation(table, rec) ==
  \E r \in table : r.email = rec.email \/ r.userName = rec.userName

\* ------------------------------------------------------------------------
\* Outcomes
\* ------------------------------------------------------------------------

Outcome(status, message) == [status |-> status, message |-> message]

NoResult == Outcome("NONE", "")

MsgEmailExists == "Email Already Exists"

MsgUserNameExists == "Username Already Exists"

MsgRegistered == "Registration Completed Successfully"

MsgInvalidLogin == "Invalid email or password"

MsgLoggedIn == "Login Successful"

MsgUnknown == "Unknown Error Occured ! Please Try Again Later"

\* ValidationOutcome reading the last issue instead of the first
ValidationOutcomeLast(issues) == Outcome("ERROR", issues[Len(issues)].message)

\* if (error) return {status: "ERROR", message: error.issues[0].message}
ValidationOutcome(issues) == Outcome("ERROR", issues[1].message)

\* DuplicateOutcome with the two messages exchanged
DuplicateOutcomeSwapped(usr, email) ==
  IF usr.email = email
    THEN Outcome("ERROR", MsgUserNameExists)
    ELSE Outcome("ERROR", MsgEmailExists)

\* if (user) { if (user.email === email) ... else ... }
DuplicateOutcome(usr, email) ==
  IF usr.email = email
    THEN Outcome("ERROR", MsgEmailExists)
    ELSE Outcome("ERROR", MsgUserNameExists)

\* a catch block that throws the error on to the caller
RegistrationCatchRethrows(err) == Outcome("THROWN", err)

\* the catch block of registrationAction
RegistrationCatch(err) == Outcome("ERROR", MsgUnknown)

\* a catch block that hands the error it caught back as the message
LoginCatchEchoesCause(err) == Outcome("ERROR", err)

\* the catch block of loginUserAction
LoginCatch(err) == Outcome("ERROR", MsgUnknown)

\* if (!user.password || !user.password.startsWith('$'))
PasswordGuardRejects(stored) ==
  \/ stored = Null
  \/ stored = Undefined
  \/ stored = <<>>
  \/ ~StartsWith(stored, "$")

\* InsertValues with the submitted password in the password column
InsertValuesPlaintext(data, hashPassword) ==
  [name |-> data.name, email |-> data.email, password |-> data.password,
   userName |-> data.userName, role |-> data.role]

\* .values({ name, email, password: hashPassword, userName, role })
InsertValues(data, hashPassword) ==
  [name |-> data.name, email |-> data.email, password |-> hashPassword,
   userName |-> data.userName, role |-> data.role]

\* ------------------------------------------------------------------------
\* Inputs
\* ------------------------------------------------------------------------

\* the number of server-action calls one run starts
MaxCalls == 3

\* the requests the server may be handling at the same time
Procs == {"c1", "c2"}

NameJo == <<"J","o">>

HandleBob == <<"b","o","b">>

HandleAmy == <<"a","m","y">>

\* sanitized: a@b.co
EmailARaw == <<" ","A","@","b",".","c","o">>

EmailA == <<"a","@","b",".","c","o">>

EmailC == <<"c","@","b",".","c","o">>

PassOne == <<"A","b","c","d","e","f","g","1">>

PassTwo == <<"A","b","c","d","e","f","g","2">>

Submission(name, userName, email, password, role, confirmPassword) ==
  [name |-> name, userName |-> userName, email |-> email,
   password |-> password, role |-> role, confirmPassword |-> confirmPassword]

\* what the concurrent runs register with: two emails and two handles in
\* every combination, and one submission that does not validate
RegInputs ==
  {Submission(NameJo, u, e, PassOne, Undefined, PassOne) :
     u \in {HandleBob, HandleAmy}, e \in {EmailARaw, EmailC}}
  \cup {Submission(NameJo, <<"b","!">>, EmailA, <<"a","b","c">>, Employer, PassOne)}

LoginInputs ==
  {[email |-> e, password |-> p] : e \in {EmailA, EmailC}, p \in {PassOne, PassTwo}}

StoredUser(name, email, userName, password, role) ==
  [name |-> name, email |-> email, password |-> password,
   userName |-> userName, role |-> role]

\* rows the users table may hold before the run: a registered account, and
\* a second account whose password column is a hash, a legacy plaintext,
\* a "$"-prefixed string that is no hash, empty, or null
SeedRows ==
  {StoredUser(NameJo, EmailA, HandleBob, Argon2Hash(PassOne, "s"), Applicant)}
  \cup {StoredUser(NameJo, EmailC, HandleAmy, pw, Employer) :
          pw \in {Argon2Hash(PassTwo, "t"), PassTwo, <<"$">>, <<>>, Null}}

\* the unique constraints hold of every table content
TableUnique(table) ==
  \A r1, r2 \in table :
    (r1.email = r2.email \/ r1.userName = r2.userName) => r1 = r2

InitTables == {t \in SUBSET SeedRows : TableUnique(t)}

\* ------------------------------------------------------------------------
\* State
\* ------------------------------------------------------------------------

VARIABLES
  db,             \* the rows of the users table
  pc,             \* per request: where its server action is suspended
  formData,       \* per request: the argument of the server action
  validatedData,  \* per request: registerUserSchema's output
  rows,           \* per request: the rows its select returned
  user,           \* per request: the first of those rows
  hashPassword,   \* per request: what argon2.hash returned
  caught,         \* per request: the error its catch block received and logged
  calls,          \* per request: the collaborator calls it issued, in order
  result,         \* per request: what the server action returned
  inserted,       \* the values handed to db.insert so far
  started,        \* the number of calls started
  form,           \* per request: the form that submits it
  loading         \* the registration form's loading state

vars == <<db, pc, formData, validatedData, rows, user, hashPassword, caught,
          calls, result, inserted, started, form,
          loading>>

NoData == [name |-> <<>>, userName |-> <<>>, email |-> <<>>,
           password |-> <<>>, role |-> <<>>]

NoForm == [email |-> <<>>, password |-> <<>>]

\* a form nobody has submitted: no values read, no field errors, nothing on
\* its way to a server action
NoSubmit == [raw |-> NoForm, errors |-> <<>>, data |-> NoForm, sent |-> "none"]

NoUser == [name |-> Undefined, email |-> Undefined, password |-> Undefined,
           userName |-> Undefined, role |-> Undefined]

Init ==
  /\ db \in InitTables
  /\ pc = [p \in Procs |-> "idle"]
  /\ formData = [p \in Procs |-> NoForm]
  /\ validatedData = [p \in Procs |-> NoData]
  /\ rows = [p \in Procs |-> {}]
  /\ user = [p \in Procs |-> NoUser]
  /\ hashPassword = [p \in Procs |-> Undefined]
  /\ caught = [p \in Procs |-> "none"]
  /\ calls = [p \in Procs |-> <<>>]
  /\ result = [p \in Procs |-> NoResult]
  /\ inserted = {}
  /\ started = 0
  /\ form = [p \in Procs |-> NoSubmit]
  /\ loading = FALSE

\* ------------------------------------------------------------------------
\* registrationAction
\* ------------------------------------------------------------------------

\* a request ends: its result is set and its locals stay for inspection
Finish(p, outcome, err) ==
  /\ pc' = [pc EXCEPT ![p] = "done"]
  /\ result' = [result EXCEPT ![p] = outcome]
  /\ caught' = [caught EXCEPT ![p] = err]

\* registrationAction validating with registerUserWithConfirmSchema
RegistrationActionConfirmSchema(p, inputs) ==
  /\ pc[p] = "idle"
  /\ started < MaxCalls
  /\ started' = started + 1
  /\ \E input \in inputs :
       /\ formData' = [formData EXCEPT ![p] = input]
       /\ LET parsed == SafeParseRegisterWithConfirm(input)
          IN  IF parsed.issues # <<>>
                THEN /\ Finish(p, ValidationOutcome(parsed.issues), "none")
                     /\ calls' = [calls EXCEPT ![p] = <<"safeParse">>]
                     /\ UNCHANGED validatedData
                ELSE /\ pc' = [pc EXCEPT ![p] = "reg_select"]
                     /\ validatedData' = [validatedData EXCEPT ![p] = parsed.data]
                     /\ calls' = [calls EXCEPT ![p] = <<"safeParse", "select">>]
                     /\ UNCHANGED <<result, caught>>
  /\ UNCHANGED <<db, rows, user, hashPassword, inserted>>
  /\ UNCHANGED <<form, loading>>

\* registrationAction without the early return on issues: the outcome is
\* built and dropped, and the select is issued all the same
RegistrationActionNoReturn(p, inputs) ==
  /\ pc[p] = "idle"
  /\ started < MaxCalls
  /\ started' = started + 1
  /\ \E input \in inputs :
       /\ formData' = [formData EXCEPT ![p] = input]
       /\ validatedData' = [validatedData EXCEPT ![p] = SafeParseRegister(input).data]
  /\ pc' = [pc EXCEPT ![p] = "reg_select"]
  /\ calls' = [calls EXCEPT ![p] = <<"safeParse", "select">>]
  /\ UNCHANGED <<db, rows, user, hashPassword, inserted, result, caught>>
  /\ UNCHANGED <<form, loading>>

\* registrationAction up to its first await: safeParse, the early return on
\* issues, the destructuring of validatedData, the select issued
RegistrationAction(p, inputs) ==
  /\ pc[p] = "idle"
  /\ started < MaxCalls
  /\ started' = started + 1
  /\ \E input \in inputs :
       /\ formData' = [formData EXCEPT ![p] = input]
       /\ LET parsed == SafeParseRegister(input)
          IN  IF parsed.issues # <<>>
                THEN /\ Finish(p, ValidationOutcome(parsed.issues), "none")
                     /\ calls' = [calls EXCEPT ![p] = <<"safeParse">>]
                     /\ UNCHANGED validatedData
                ELSE /\ pc' = [pc EXCEPT ![p] = "reg_select"]
                     /\ validatedData' = [validatedData EXCEPT ![p] = parsed.data]
                     /\ calls' = [calls EXCEPT ![p] = <<"safeParse", "select">>]
                     /\ UNCHANGED <<result, caught>>
  /\ UNCHANGED <<db, rows, user, hashPassword, inserted>>
  /\ UNCHANGED <<form, loading>>

\* the select of line 29 fails: the catch block
RegSelectFails(p) ==
  /\ pc[p] = "reg_select"
  /\ Finish(p, RegistrationCatch("select_failed"), "select_failed")
  /\ UNCHANGED <<db, formData, validatedData, rows, user, hashPassword,
                 calls, inserted, started>>
  /\ UNCHANGED <<form, loading>>

\* the select of line 29 returns, with argon2.hash called before the rows
\* are looked at
RegSelectReturnsHashFirst(p) ==
  /\ pc[p] = "reg_select"
  /\ LET found == SelectByEmailOrUserName(db, validatedData[p].email,
                                          validatedData[p].userName)
     IN  /\ rows' = [rows EXCEPT ![p] = found]
         /\ calls' = [calls EXCEPT ![p] = Append(@, "hash")]
         /\ IF found = {}
              THEN /\ pc' = [pc EXCEPT ![p] = "reg_hash"]
                   /\ UNCHANGED <<user, result, caught>>
              ELSE \E first \in found :
                     /\ user' = [user EXCEPT ![p] = first]
                     /\ Finish(p, DuplicateOutcome(first, validatedData[p].email), "none")
  /\ UNCHANGED <<db, formData, validatedData, hashPassword, inserted, started>>
  /\ UNCHANGED <<form, loading>>

\* a duplicate select that also sees the rows other calls are about to
\* insert, as one that took part in a transaction with the insert would
RegSelectReturnsSeesPending(p) ==
  /\ pc[p] = "reg_select"
  /\ LET pending == {InsertValues(validatedData[q], Undefined) :
                       q \in {r \in Procs \ {p} : pc[r] \in {"reg_hash", "reg_insert"}}}
         found == SelectByEmailOrUserName(db \cup pending, validatedData[p].email,
                                          validatedData[p].userName)
     IN  /\ rows' = [rows EXCEPT ![p] = found]
         /\ IF found = {}
              THEN /\ pc' = [pc EXCEPT ![p] = "reg_hash"]
                   /\ calls' = [calls EXCEPT ![p] = Append(@, "hash")]
                   /\ UNCHANGED <<user, result, caught>>
              ELSE \E first \in found :
                     /\ user' = [user EXCEPT ![p] = first]
                     /\ Finish(p, DuplicateOutcome(first, validatedData[p].email), "none")
                     /\ UNCHANGED calls
  /\ UNCHANGED <<db, formData, validatedData, hashPassword, inserted, started>>
  /\ UNCHANGED <<form, loading>>

\* the select of line 29 returns its rows in an order of the storage's
\* choosing; [user] is the first; a collision returns, else hash is called
RegSelectReturns(p) ==
  /\ pc[p] = "reg_select"
  /\ LET found == SelectByEmailOrUserName(db, validatedData[p].email,
                                          validatedData[p].userName)
     IN  /\ rows' = [rows EXCEPT ![p] = found]
         /\ IF found = {}
              THEN /\ pc' = [pc EXCEPT ![p] = "reg_hash"]
                   /\ calls' = [calls EXCEPT ![p] = Append(@, "hash")]
                   /\ UNCHANGED <<user, result, caught>>
              ELSE \E first \in found :
                     /\ user' = [user EXCEPT ![p] = first]
                     /\ Finish(p, DuplicateOutcome(first, validatedData[p].email), "none")
                     /\ UNCHANGED calls
  /\ UNCHANGED <<db, formData, validatedData, hashPassword, inserted, started>>
  /\ UNCHANGED <<form, loading>>

\* a failure of argon2.hash answered by going back to the duplicate query
RegHashFailsRetries(p) ==
  /\ pc[p] = "reg_hash"
  /\ pc' = [pc EXCEPT ![p] = "reg_select"]
  /\ UNCHANGED <<db, formData, validatedData, rows, user, hashPassword,
                 caught, result, calls, inserted, started>>
  /\ UNCHANGED <<form, loading>>

\* argon2.hash of line 47 fails: the catch block
RegHashFails(p) ==
  /\ pc[p] = "reg_hash"
  /\ Finish(p, RegistrationCatch("hash_failed"), "hash_failed")
  /\ UNCHANGED <<db, formData, validatedData, rows, user, hashPassword,
                 calls, inserted, started>>
  /\ UNCHANGED <<form, loading>>

\* argon2.hash of line 47 returns; the insert of line 48 is issued
RegHashReturns(p) ==
  /\ pc[p] = "reg_hash"
  /\ \E salt \in Salts :
       /\ hashPassword' = [hashPassword EXCEPT ![p] =
                             Argon2Hash(validatedData[p].password, salt)]
       /\ inserted' = inserted \cup
            {[values |-> InsertValues(validatedData[p],
                                      Argon2Hash(validatedData[p].password, salt)),
              plaintext |-> validatedData[p].password]}
  /\ pc' = [pc EXCEPT ![p] = "reg_insert"]
  /\ calls' = [calls EXCEPT ![p] = Append(@, "insert")]
  /\ UNCHANGED <<db, formData, validatedData, rows, user, caught, result, started>>
  /\ UNCHANGED <<form, loading>>

\* an insert that writes the row and then fails all the same
RegInsertFailsAfterWrite(p) ==
  /\ pc[p] = "reg_insert"
  /\ db' = db \cup {InsertValues(validatedData[p], hashPassword[p])}
  /\ Finish(p, RegistrationCatch("insert_failed"), "insert_failed")
  /\ UNCHANGED <<formData, validatedData, rows, user, hashPassword,
                 calls, inserted, started>>
  /\ UNCHANGED <<form, loading>>

\* the insert of line 48 fails, on a unique constraint whenever a row with
\* the email or the userName is there by now: the catch block
RegInsertFails(p) ==
  /\ pc[p] = "reg_insert"
  /\ LET values == InsertValues(validatedData[p], hashPassword[p])
         err == IF UniqueViolation(db, values) THEN "unique_violation"
                                               ELSE "insert_failed"
     IN  Finish(p, RegistrationCatch(err), err)
  /\ UNCHANGED <<db, formData, validatedData, rows, user, hashPassword,
                 calls, inserted, started>>
  /\ UNCHANGED <<form, loading>>

\* the insert of line 48 without its await: the success outcome is returned
\* while the insert is still pending, and the insert then fails
RegInsertNotAwaited(p) ==
  /\ pc[p] = "reg_insert"
  /\ Finish(p, Outcome("SUCCESS", MsgRegistered), "none")
  /\ UNCHANGED <<db, formData, validatedData, rows, user, hashPassword,
                 calls, inserted, started>>
  /\ UNCHANGED <<form, loading>>

\* the insert of line 48 succeeds; the success outcome of lines 50-53
RegInsertReturns(p) ==
  /\ pc[p] = "reg_insert"
  /\ LET values == InsertValues(validatedData[p], hashPassword[p])
     IN  /\ ~UniqueViolation(db, values)
         /\ db' = db \cup {values}
  /\ Finish(p, Outcome("SUCCESS", MsgRegistered), "none")
  /\ UNCHANGED <<formData, validatedData, rows, user, hashPassword,
                 calls, inserted, started>>
  /\ UNCHANGED <<form, loading>>

\* ------------------------------------------------------------------------
\* loginUserAction
\* ------------------------------------------------------------------------

\* loginUserAction up to its first await: the select of line 75 issued
LoginUserAction(p, inputs) ==
  /\ pc[p] = "idle"
  /\ started < MaxCalls
  /\ started' = started + 1
  /\ \E input \in inputs : formData' = [formData EXCEPT ![p] = input]
  /\ pc' = [pc EXCEPT ![p] = "login_select"]
  /\ calls' = [calls EXCEPT ![p] = <<"select">>]
  /\ UNCHANGED <<db, validatedData, rows, user, hashPassword, caught,
                 result, inserted>>
  /\ UNCHANGED <<form, loading>>

\* the select of line 75 fails: the catch block
LoginSelectFails(p) ==
  /\ pc[p] = "login_select"
  /\ Finish(p, LoginCatch("select_failed"), "select_failed")
  /\ UNCHANGED <<db, formData, validatedData, rows, user, hashPassword,
                 calls, inserted, started>>
  /\ UNCHANGED <<form, loading>>

\* the select of line 75 returns: no row, a row the guard of line 88
\* rejects, or a row whose password goes to argon2.verify
LoginSelectReturns(p) ==
  /\ pc[p] = "login_select"
  /\ LET found == SelectByEmail(db, formData[p].email)
     IN  /\ rows' = [rows EXCEPT ![p] = found]
         /\ IF found = {}
              THEN /\ Finish(p, Outcome("ERROR", MsgInvalidLogin), "none")
                   /\ UNCHANGED <<user, calls>>
              ELSE \E first \in found :
                     /\ user' = [user EXCEPT ![p] = first]
                     /\ IF PasswordGuardRejects(first.password)
                          THEN /\ Finish(p, Outcome("ERROR", MsgInvalidLogin), "none")
                               /\ UNCHANGED calls
                          ELSE /\ pc' = [pc EXCEPT ![p] = "login_verify"]
                               /\ calls' = [calls EXCEPT ![p] = Append(@, "verify")]
                               /\ UNCHANGED <<result, caught>>
  /\ UNCHANGED <<db, formData, validatedData, hashPassword, inserted, started>>
  /\ UNCHANGED <<form, loading>>

\* argon2.verify of line 96 raises: the catch block
LoginVerifyFails(p) ==
  /\ pc[p] = "login_verify"
  /\ LET err == IF Argon2Verify(user[p].password, formData[p].password) = "raise"
                  THEN "verify_parse_error" ELSE "verify_failed"
     IN  Finish(p, LoginCatch(err), err)
  /\ UNCHANGED <<db, formData, validatedData, rows, user, hashPassword,
                 calls, inserted, started>>
  /\ UNCHANGED <<form, loading>>

\* argon2.verify of line 96 returns: lines 98-109
LoginVerifyReturns(p) ==
  /\ pc[p] = "login_verify"
  /\ LET isValidPassword == Argon2Verify(user[p].password, formData[p].password)
     IN  /\ isValidPassword # "raise"
         /\ IF isValidPassword = "true"
              THEN Finish(p, Outcome("SUCCESS", MsgLoggedIn), "none")
              ELSE Finish(p, Outcome("ERROR", MsgInvalidLogin), "none")
  /\ UNCHANGED <<db, formData, validatedData, rows, user, hashPassword,
                 calls, inserted, started>>
  /\ UNCHANGED <<form, loading>>

\* the caller has the result; the request slot takes the next call
Return(p) ==
  /\ pc[p] = "done"
  /\ pc' = [pc EXCEPT ![p] = "idle"]
  /\ formData' = [formData EXCEPT ![p] = NoForm]
  /\ validatedData' = [validatedData EXCEPT ![p] = NoData]
  /\ rows' = [rows EXCEPT ![p] = {}]
  /\ user' = [user EXCEPT ![p] = NoUser]
  /\ hashPassword' = [hashPassword EXCEPT ![p] = Undefined]
  /\ caught' = [caught EXCEPT ![p] = "none"]
  /\ calls' = [calls EXCEPT ![p] = <<>>]
  /\ result' = [result EXCEPT ![p] = NoResult]
  /\ UNCHANGED <<db, inserted, started>>
  /\ UNCHANGED <<form, loading>>

Next ==
  \E p \in Procs :
    \/ RegistrationAction(p, RegInputs)
    \/ RegSelectFails(p)
    \/ RegSelectReturns(p)
    \/ RegHashFails(p)
    \/ RegHashReturns(p)
    \/ RegInsertFails(p)
    \/ RegInsertReturns(p)
    \/ LoginUserAction(p, LoginInputs)
    \/ LoginSelectFails(p)
    \/ LoginSelectReturns(p)
    \/ LoginVerifyFails(p)
    \/ LoginVerifyReturns(p)
    \/ Return(p)

Spec == Init /\ [][Next]_vars

\* ------------------------------------------------------------------------
\* One registration over the rule sets' cases
\* ------------------------------------------------------------------------

ValNames ==
  {NameJo, <<"J">>, <<" ","J","o"," ">>, <<" ","J"," ">>, Undefined}

ValUserNames ==
  {HandleBob, HandleAmy, <<"j","o">>, <<"j","!">>, <<"b","o","b","!">>,
   <<" ","b","o","b"," ">>, <<"b","o"," ","b">>, <<"a","_","-","1">>,
   <<" ","a","m","y"," ">>, Undefined}

ValEmails ==
  {EmailARaw, EmailC, <<"A","@","B",".","C","O","\n">>, <<"b","a","d">>,
   <<"a","@","b">>, <<"a",".",".","b","@","c",".","d","e">>,
   <<"a","@","b",".","c","o","@">>, <<" ","C","@","b",".","C","o"," ">>,
   Undefined}

ValPasswords ==
  {PassOne,
   <<"a","b","c","d","e","f","g","h">>,
   <<"A","B","C","D","E","F","G","1">>,
   <<"A","b","c","d","e","f","g","h">>,
   <<"a","b","c","d","e","f","g","1">>,
   <<"A","b","1">>,
   <<"a","b","c">>,
   <<>>,
   <<" ","A","b","c","d","e","f","g","1"," ">>,
   <<"A","B","C","D","E","F","G","1","\n","a">>,
   Undefined}

ValRoles ==
  {Undefined, Applicant, Employer, <<"a","d","m","i","n">>,
   <<"A","p","p","l","i","c","a","n","t">>, <<>>, Null}

ValInputs ==
  {Submission(n, u, e, pw, r, PassOne) :
     n \in ValNames, u \in ValUserNames, e \in ValEmails,
     pw \in ValPasswords, r \in ValRoles}

\* the table the single registration runs against
ValTable ==
  {StoredUser(NameJo, EmailA, HandleBob, Argon2Hash(PassOne, "s"), Applicant)}

InitV == Init /\ db = ValTable

NextV ==
  \/ RegistrationAction("c1", ValInputs)
  \/ RegSelectFails("c1")
  \/ RegSelectReturns("c1")
  \/ RegHashFails("c1")
  \/ RegHashReturns("c1")
  \/ RegInsertFails("c1")
  \/ RegInsertReturns("c1")

SpecV == InitV /\ [][NextV]_vars

\* ------------------------------------------------------------------------
\* Properties
\* ------------------------------------------------------------------------

IsRegistration(p) == calls[p] # <<>> /\ calls[p][1] = "safeParse"

IsLogin(p) == calls[p] # <<>> /\ calls[p][1] = "select"

\* the duplicate select of request p returns in this step
RegSelectAnswered(p) ==
  /\ pc[p] = "reg_select"
  /\ pc'[p] # "reg_select"
  /\ caught'[p] # "select_failed"

\* C1 as stated: whenever the duplicate select returns, any stored row with
\* the sanitized email gives "Email Already Exists", also when another row
\* has the handle; no row with the email but one with the handle gives
\* "Username Already Exists".
C1_AnyEmailRowWins ==
  [][\A p \in Procs :
       RegSelectAnswered(p) =>
         LET e == validatedData[p].email
             u == validatedData[p].userName
         IN  /\ (\E r \in db : r.email = e)
                  => result'[p] = Outcome("ERROR", MsgEmailExists)
             /\ ((\A r \in db : r.email # e) /\ (\E r \in db : r.userName = u))
                  => result'[p] = Outcome("ERROR", MsgUserNameExists)]_vars

\* C1 amended: the row the select returns first decides. When every stored
\* row with the handle also has the email, a stored row with the email gives
\* "Email Already Exists"; no row with the email but one with the handle
\* gives "Username Already Exists"; when one row has the email and another
\* row has the handle the outcome is either message, the email one exactly
\* when the first returned row is the one with the email.
C1_FirstRowDecides ==
  [][\A p \in Procs :
       RegSelectAnswered(p) =>
         LET e == validatedData[p].email
             u == validatedData[p].userName
             emailRow == \E r \in db : r.email = e
             otherHandleRow == \E r \in db : r.userName = u /\ r.email # e
         IN  /\ (emailRow /\ ~otherHandleRow)
                  => result'[p] = Outcome("ERROR", MsgEmailExists)
             /\ (~emailRow /\ otherHandleRow)
                  => result'[p] = Outcome("ERROR", MsgUserNameExists)
             /\ (emailRow /\ otherHandleRow)
                  => /\ result'[p] \in {Outcome("ERROR", MsgEmailExists),
                                        Outcome("ERROR", MsgUserNameExists)}
                     /\ (result'[p] = Outcome("ERROR", MsgEmailExists))
                          <=> (user'[p].email = e)]_vars

\* a registration collided with one stored row on both email and handle and
\* was told "Email Already Exists"
C1_Witness ==
  \E p \in Procs :
    /\ pc[p] = "done"
    /\ IsRegistration(p)
    /\ Cardinality(rows[p]) = 1
    /\ user[p].email = validatedData[p].email
    /\ user[p].userName = validatedData[p].userName
    /\ result[p] = Outcome("ERROR", MsgEmailExists)

\* the stored secret of the row a login found is no well-formed argon2 hash
StoredSecretMalformed(p) ==
  \/ PasswordGuardRejects(user[p].password)
  \/ ~PhcDecodes(user[p].password)

\* C2: a login that found no row for the email, or a row whose hash does not
\* verify against the password, or a row whose secret is a malformed hash,
\* returns {ERROR, "Invalid email or password"} in each of the three cases.
C2_LoginFailuresIndistinguishable ==
  \A p \in Procs :
    (/\ pc[p] = "done"
     /\ IsLogin(p)
     /\ caught[p] \notin {"select_failed", "verify_failed"}
     /\ \/ rows[p] = {}
        \/ StoredSecretMalformed(p)
        \/ Argon2Verify(user[p].password, formData[p].password) = "false")
      => result[p] = Outcome("ERROR", MsgInvalidLogin)

\* C3: a registration whose insert failed on a unique constraint returns one
\* of the two "Already Exists" outcomes, not the unknown-error outcome.
C3_UniqueViolationIsDuplicate ==
  \A p \in Procs :
    (pc[p] = "done" /\ IsRegistration(p) /\ caught[p] = "unique_violation")
      => result[p] \in {Outcome("ERROR", MsgEmailExists),
                        Outcome("ERROR", MsgUserNameExists)}

\* C4: every call that has ended, whatever failed in it, has returned an
\* envelope with status SUCCESS or ERROR and a message; nothing was raised
\* to the caller.
C4_AlwaysAnEnvelope ==
  \A p \in Procs :
    /\ pc[p] = "done"
         => /\ result[p].status \in {"SUCCESS", "ERROR"}
            /\ result[p].message # ""
    /\ result[p].status \in {"NONE", "SUCCESS", "ERROR"}

\* a registration ended in its catch block and returned an ERROR envelope
C4_Witness ==
  \E p \in Procs :
    /\ pc[p] = "done"
    /\ IsRegistration(p)
    /\ caught[p] # "none"
    /\ result[p].status = "ERROR"

\* C5: every value handed to the insert, and so every row registration
\* wrote, has as password an argon2 hash of the submitted plaintext and not
\* the plaintext.
C5_OnlyHashesStored ==
  /\ \A i \in inserted :
       /\ i.values.password # i.plaintext
       /\ \E salt \in Salts : i.values.password = Argon2Hash(i.plaintext, salt)
  /\ \A r \in db : r \in SeedRows \/ r \in {i.values : i \in inserted}

\* a successful registration whose row is in the table
C5_Witness ==
  \E p \in Procs :
    /\ pc[p] = "done"
    /\ result[p] = Outcome("SUCCESS", MsgRegistered)
    /\ InsertValues(validatedData[p], hashPassword[p]) \in db
    /\ \E i \in inserted :
         /\ i.values = InsertValues(validatedData[p], hashPassword[p])
         /\ i.plaintext = formData[p].password

\* C6: the login secret check is total. A stored value that passed the guard
\* and made the verify primitive raise a parse error counts as a non-match
\* (outcome "Invalid email or password"); a stored value the guard rejects
\* gives that outcome without verify being called.
C6_SecretCheckTotal ==
  \A p \in Procs :
    (pc[p] = "done" /\ IsLogin(p) /\ rows[p] # {})
      => /\ caught[p] = "verify_parse_error"
              => result[p] = Outcome("ERROR", MsgInvalidLogin)
         /\ PasswordGuardRejects(user[p].password)
              => /\ calls[p] = <<"select">>
                 /\ result[p] = Outcome("ERROR", MsgInvalidLogin)

\* The rule a field value breaks first, "" when it breaks none: the rules of
\* auth.schema.ts read one after the other, each on the transformed value.
NameViolation(v) ==
  IF ~IsString(v) THEN MsgInvalidString
  ELSE IF Len(Trim(v)) < NameMin THEN MsgNameMin
  ELSE IF Len(Trim(v)) > NameMax THEN MsgNameMax
  ELSE ""

UserNameViolation(v) ==
  IF ~IsString(v) THEN MsgInvalidString
  ELSE IF Len(Trim(v)) < UserNameMin THEN MsgUserNameMin
  ELSE IF Len(Trim(v)) > UserNameMax THEN MsgUserNameMax
  ELSE IF LET t == Trim(v)
          IN  \E i \in 1..Len(t) : t[i] \notin AlnumChars \cup {"_", "-"}
    THEN MsgUserNameRegex
  ELSE ""

EmailViolation(v) ==
  IF ~IsString(v) THEN MsgInvalidString
  ELSE IF ~EmailRegex(ToLowerCase(Trim(v))) THEN MsgEmailFormat
  ELSE IF Len(Trim(v)) > EmailMax THEN MsgEmailMax
  ELSE ""

\* the password has no lowercase letter, no uppercase letter or no digit
LacksCharacterClass(v) ==
  \/ \A i \in 1..Len(v) : v[i] \notin LowerChars
  \/ \A i \in 1..Len(v) : v[i] \notin UpperChars
  \/ \A i \in 1..Len(v) : v[i] \notin DigitChars

PasswordViolation(v) ==
  IF ~IsString(v) THEN MsgInvalidString
  ELSE IF Len(v) < PasswordMin THEN MsgPasswordMin
  ELSE IF ~PasswordRegex(v) THEN MsgPasswordRegex
  ELSE ""

RoleViolation(v) ==
  IF v = Undefined \/ v = Applicant \/ v = Employer THEN "" ELSE MsgRole

\* the first broken rule of a submission in the order name, userName,
\* email, password, role
FirstViolation(fd) ==
  IF NameViolation(fd.name) # "" THEN NameViolation(fd.name)
  ELSE IF UserNameViolation(fd.userName) # "" THEN UserNameViolation(fd.userName)
  ELSE IF EmailViolation(fd.email) # "" THEN EmailViolation(fd.email)
  ELSE IF PasswordViolation(fd.password) # "" THEN PasswordViolation(fd.password)
  ELSE RoleViolation(fd.role)

\* C7: an invalid registration submission is answered with exactly one
\* message, that of the first broken rule in field order (name, userName,
\* email, password, role) and, within the field, rule order; later
\* violations never replace it.
C7_FirstViolationOnly ==
  \A p \in Procs :
    (pc[p] = "done" /\ IsRegistration(p) /\ FirstViolation(formData[p]) # "")
      => result[p] = Outcome("ERROR", FirstViolation(formData[p]))

\* an answered submission that broke rules of three fields, two of them of
\* userName
C7_Witness ==
  \E p \in Procs :
    /\ pc[p] = "done"
    /\ IsRegistration(p)
    /\ NameViolation(formData[p].name) = ""
    /\ formData[p].userName = <<"j", "!">>
    /\ EmailViolation(formData[p].email) # ""
    /\ PasswordViolation(formData[p].password) # ""
    /\ result[p] = Outcome("ERROR", MsgUserNameMin)

\* name, userName, email and role of the submission break no rule
OtherThanPasswordValid(fd) ==
  /\ NameViolation(fd.name) = ""
  /\ UserNameViolation(fd.userName) = ""
  /\ EmailViolation(fd.email) = ""
  /\ RoleViolation(fd.role) = ""

\* C8 as stated: with the other fields valid, a password that lacks a
\* lowercase letter, an uppercase letter or a digit, or that is too short, is
\* answered with the one password-complexity message.
C8_OnePasswordMessage ==
  \A p \in Procs :
    (/\ pc[p] = "done"
     /\ IsRegistration(p)
     /\ OtherThanPasswordValid(formData[p])
     /\ IsString(formData[p].password)
     /\ \/ LacksCharacterClass(formData[p].password)
        \/ Len(formData[p].password) < PasswordMin)
      => result[p] = Outcome("ERROR", MsgPasswordRegex)

\* C8 amended: with the other fields valid, a password of at least 8
\* characters that lacks a lowercase letter, an uppercase letter or a digit
\* is answered with the password-complexity message, the one message of the
\* three character-class conditions; the minimum length is a rule of its
\* own that is read first, so a password shorter than 8 characters is
\* answered with the minimum-length message whatever classes it lacks.
C8_LengthThenComplexity ==
  \A p \in Procs :
    (/\ pc[p] = "done"
     /\ IsRegistration(p)
     /\ OtherThanPasswordValid(formData[p])
     /\ IsString(formData[p].password))
      => /\ (Len(formData[p].password) >= PasswordMin
               /\ LacksCharacterClass(formData[p].password))
              => result[p] = Outcome("ERROR", MsgPasswordRegex)
         /\ Len(formData[p].password) < PasswordMin
              => result[p] = Outcome("ERROR", MsgPasswordMin)

\* an answered submission whose 8-character password has no digit
C8_Witness ==
  \E p \in Procs :
    /\ pc[p] = "done"
    /\ IsRegistration(p)
    /\ OtherThanPasswordValid(formData[p])
    /\ formData[p].password = <<"A","b","c","d","e","f","g","h">>
    /\ result[p] = Outcome("ERROR", MsgPasswordRegex)

C10_InvalidStopsBeforeStorage ==
  /\ [](\A p \in Procs :
          (IsRegistration(p) /\ FirstViolation(formData[p]) # "")
            => /\ pc[p] = "done"
               /\ result[p].status = "ERROR"
               /\ calls[p] = <<"safeParse">>
               /\ rows[p] = {}
               /\ hashPassword[p] = Undefined)
  /\ [][\A p \in Procs :
          (pc[p] = "idle" /\ pc'[p] = "done")
            => (db' = db /\ inserted' = inserted)]_vars

\* an invalid submission was answered while the table held its row
C10_Witness ==
  \E p \in Procs :
    /\ pc[p] = "done"
    /\ IsRegistration(p)
    /\ FirstViolation(formData[p]) # ""
    /\ calls[p] = <<"safeParse">>
    /\ result[p].status = "ERROR"
    /\ db = ValTable

\* the errors a collaborator can fail with
Causes ==
  {"select_failed", "hash_failed", "insert_failed", "unique_violation",
   "verify_failed", "verify_parse_error"}

\* C11 as stated: a call in which the storage or the hashing collaborator
\* failed returns {ERROR, "Unknown Error Occured! Please Try Again Later"}.
C11_UnknownErrorAsSpelledInSpec ==
  \A p \in Procs :
    (pc[p] = "done" /\ caught[p] # "none")
      => result[p] = Outcome("ERROR", "Unknown Error Occured! Please Try Again Later")

\* C11 amended: a call in which the storage or the hashing collaborator
\* failed returns {ERROR, "Unknown Error Occured ! Please Try Again Later"}
\* (a blank before the "!"); the message is this one string whatever the
\* cause, and the cause is what the catch block logged, not what it returned.
C11_OneUnknownErrorMessage ==
  \A p \in Procs :
    /\ (pc[p] = "done" /\ caught[p] # "none")
         => /\ result[p] = Outcome("ERROR", "Unknown Error Occured ! Please Try Again Later")
            /\ caught[p] \in Causes
            /\ result[p].message \notin Causes
    /\ (pc[p] = "done" /\ caught[p] = "none") => result[p].message # MsgUnknown

\* a login whose select failed and a registration whose hash failed, both
\* answered
C11_Witness ==
  \E p, q \in Procs :
    /\ pc[p] = "done" /\ IsLogin(p) /\ caught[p] = "select_failed"
    /\ pc[q] = "done" /\ IsRegistration(q) /\ caught[q] = "hash_failed"
    /\ result[p] = result[q]

\* C12: every step leaves the stored rows in place; a row is added only by
\* the step in which a registration's insert completes and the call returns
\* SUCCESS, one row at a time; no step of a login changes the table.
C12_RowsOnlyAddedBySuccess ==
  [][/\ db \subseteq db'
     /\ db' # db
          => \E p \in Procs :
               /\ pc[p] = "reg_insert"
               /\ pc'[p] = "done"
               /\ result'[p] = Outcome("SUCCESS", MsgRegistered)
               /\ db' = db \cup {InsertValues(validatedData[p], hashPassword[p])}
     /\ \A p \in Procs :
          (pc[p] \in {"login_select", "login_verify"} /\ pc'[p] # pc[p])
            => db' = db
     /\ \A p \in Procs :
          (pc[p] # "done" /\ pc'[p] = "done" /\ result'[p].status = "ERROR")
            => db' = db]_vars

\* a table that holds a seed row, untouched, and a row a registration added,
\* after a login and a failed registration ran
C12_Witness ==
  /\ \E r \in db : r \in SeedRows
  /\ \E r \in db : r \notin SeedRows
  /\ \E p, q \in Procs :
       /\ pc[p] = "done" /\ IsLogin(p)
       /\ pc[q] = "done" /\ IsRegistration(q) /\ result[q].status = "ERROR"

\* the login of request p ended in the Reject state of the secret check
SecretReject(p) ==
  calls[p] = <<"select">> /\ result[p] = Outcome("ERROR", MsgInvalidLogin)

\* the login of request p ended in the Match state of the secret check
SecretMatch(p) ==
  calls[p] = <<"select", "verify">> /\ result[p] = Outcome("SUCCESS", MsgLoggedIn)

\* the login of request p ended in the NoMatch state of the secret check
SecretNoMatch(p) ==
  calls[p] = <<"select", "verify">> /\ result[p] = Outcome("ERROR", MsgInvalidLogin)

\* C13: a login that found a row runs the secret check along one path:
\* verify is called only for a stored value the guard let through, at most
\* once, and the call ends in exactly one of Reject, Match, NoMatch.
C13_OneSecretCheckPath ==
  \A p \in Procs :
    (IsLogin(p) /\ rows[p] # {} /\ caught[p] # "verify_failed")
      => /\ Cardinality({i \in 1..Len(calls[p]) : calls[p][i] = "verify"}) <= 1
         /\ (\E i \in 1..Len(calls[p]) : calls[p][i] = "verify")
              => ~PasswordGuardRejects(user[p].password)
         /\ pc[p] = "done"
              => \/ SecretReject(p) /\ ~SecretMatch(p) /\ ~SecretNoMatch(p)
                 \/ ~SecretReject(p) /\ SecretMatch(p) /\ ~SecretNoMatch(p)
                 \/ ~SecretReject(p) /\ ~SecretMatch(p) /\ SecretNoMatch(p)

\* plaintexts close to pw and different from it
OtherPlaintexts(pw) ==
  {PassOne, PassTwo, Reverse(pw), pw \o <<"s">>, <<"s">> \o pw,
   Trim(pw), ToLowerCase(pw), <<>>} \ {pw}

RegistrationSteps == <<"safeParse", "select", "hash", "insert">>

\* C19: a registration issues validate, select, hash, insert in this order:
\* hash only after the select returned no row, insert only after hash
\* returned, the SUCCESS outcome only after the insert completed; a call
\* that found a collision has called neither hash nor insert.
C19_RegistrationStepOrder ==
  \A p \in Procs :
    IsRegistration(p) =>
      /\ \E n \in 1..4 : calls[p] = SubSeq(RegistrationSteps, 1, n)
      /\ Len(calls[p]) >= 3 => (rows[p] = {} /\ pc[p] # "reg_select")
      /\ Len(calls[p]) = 4
           => (hashPassword[p] # Undefined /\ pc[p] \in {"reg_insert", "done"})
      /\ Len(calls[p]) < 4 => hashPassword[p] = Undefined
      /\ result[p].status = "SUCCESS"
           => /\ result[p] = Outcome("SUCCESS", MsgRegistered)
              /\ Len(calls[p]) = 4
              /\ InsertValues(validatedData[p], hashPassword[p]) \in db
      /\ rows[p] # {}
           => /\ calls[p] = <<"safeParse", "select">>
              /\ pc[p] = "done"
              /\ result[p].message \in {MsgEmailExists, MsgUserNameExists}

\* one registration succeeded after all four steps while another stopped
\* at a collision
C19_Witness ==
  \E p, q \in Procs :
    /\ pc[p] = "done" /\ result[p] = Outcome("SUCCESS", MsgRegistered)
    /\ calls[p] = RegistrationSteps
    /\ pc[q] = "done" /\ IsRegistration(q) /\ rows[q] # {}
    /\ calls[q] = <<"safeParse", "select">>

\* C16: a username that, trimmed, has a character outside [A-Za-z0-9_-]
\* fails registration validation, also when the characters before it or
\* after it match: the pattern must match the whole string.
C16_UserNameWholeStringPattern ==
  \A p \in Procs :
    (/\ IsRegistration(p)
     /\ IsString(formData[p].userName)
     /\ \E i \in 1..Len(Trim(formData[p].userName)) :
          Trim(formData[p].userName)[i] \notin AlnumChars \cup {"_", "-"})
      => /\ pc[p] = "done"
         /\ result[p].status = "ERROR"
         /\ calls[p] = <<"safeParse">>
         /\ NameViolation(formData[p].name) = ""
              => result[p].message \in {MsgUserNameMin, MsgUserNameMax, MsgUserNameRegex}
         /\ (/\ NameViolation(formData[p].name) = ""
             /\ Len(Trim(formData[p].userName)) \in UserNameMin..UserNameMax)
              => result[p].message = MsgUserNameRegex

\* answered submissions whose usernames are "bob!" and "bo b": a valid
\* prefix, one disallowed character
C16_Witness ==
  \E p \in Procs :
    /\ pc[p] = "done"
    /\ IsRegistration(p)
    /\ formData[p].userName \in {<<"b","o","b","!">>, <<"b","o"," ","b">>}
    /\ NameViolation(formData[p].name) = ""
    /\ result[p] = Outcome("ERROR", MsgUserNameRegex)

\* every field but role of the submission breaks no rule
OtherThanRoleValid(fd) ==
  /\ NameViolation(fd.name) = ""
  /\ UserNameViolation(fd.userName) = ""
  /\ EmailViolation(fd.email) = ""
  /\ PasswordViolation(fd.password) = ""

\* C17: an absent role is sanitized to "applicant"; "applicant" and
\* "employer" are kept; any other provided value fails validation with the
\* role message and is never replaced by the default.
C17_RoleDefaultOnlyWhenAbsent ==
  \A p \in Procs :
    (IsRegistration(p) /\ OtherThanRoleValid(formData[p]))
      => LET role == formData[p].role
         IN  /\ role = Undefined
                  => (Len(calls[p]) >= 2 /\ validatedData[p].role = Applicant)
             /\ role \in {Applicant, Employer}
                  => (Len(calls[p]) >= 2 /\ validatedData[p].role = role)
             /\ (role # Undefined /\ role \notin {Applicant, Employer})
                  => /\ pc[p] = "done"
                     /\ result[p] = Outcome("ERROR", MsgRole)
                     /\ calls[p] = <<"safeParse">>
                     /\ validatedData[p] = NoData

\* a registration without role reached the insert with role "applicant"
C17_Witness ==
  \E p \in Procs :
    /\ IsRegistration(p)
    /\ formData[p].role = Undefined
    /\ Len(calls[p]) = 4
    /\ \E i \in inserted : i.values.role = Applicant /\ i.values = InsertValues(validatedData[p], hashPassword[p])

\* ------------------------------------------------------------------------
\* One registration over the length bounds
\* ------------------------------------------------------------------------

\* the string of n characters c
Rep(c, n) == [i \in 1..n |-> c]

EmailTail == <<"@","b",".","c","o">>

BoundNames ==
  {Rep("n", NameMin), Rep("n", NameMin - 1), Rep("n", NameMax),
   Rep("n", NameMax + 1), <<" ">> \o Rep("n", NameMax) \o <<" ">>,
   <<" ">> \o Rep("n", NameMin - 1) \o <<" ">>, Undefined}

BoundUserNames ==
  {Rep("u", UserNameMin), Rep("u", UserNameMin - 1), Rep("u", UserNameMax),
   Rep("u", UserNameMax + 1), <<" ">> \o Rep("u", UserNameMax), Undefined}

BoundEmails ==
  {EmailC, Rep("e", EmailMax - 5) \o EmailTail, Rep("e", EmailMax - 4) \o EmailTail,
   <<" ">> \o Rep("e", EmailMax - 5) \o EmailTail \o <<" ">>, Undefined}

BoundPasswords ==
  {PassOne, <<"A","b","c","d","e","f","1">>,
   <<"A","b","c","d","e","1"," "," ">>, Undefined}

\* every field at its upper bound, the password at its lower bound
BoundName == <<" ">> \o Rep("n", NameMax) \o <<" ">>

BoundUserName == Rep("u", UserNameMax)

BoundEmail == Rep("e", EmailMax - 5) \o EmailTail

\* name and username vary together, email and password vary together
BoundInputs ==
  {Submission(n, u, BoundEmail, PassOne, Undefined, PassOne) :
     n \in BoundNames, u \in BoundUserNames}
  \cup
  {Submission(BoundName, BoundUserName, e, pw, Undefined, pw) :
     e \in BoundEmails, pw \in BoundPasswords}

NextB ==
  \/ RegistrationAction("c1", BoundInputs)
  \/ RegSelectFails("c1")
  \/ RegSelectReturns("c1")
  \/ RegHashFails("c1")
  \/ RegHashReturns("c1")
  \/ RegInsertFails("c1")
  \/ RegInsertReturns("c1")

SpecB == InitV /\ [][NextB]_vars

\* the four required fields are strings within the bounds the claim names
WithinStatedBounds(fd) ==
  /\ IsString(fd.name) /\ Len(Trim(fd.name)) \in 2..255
  /\ IsString(fd.userName) /\ Len(Trim(fd.userName)) \in 3..255
  /\ IsString(fd.email) /\ Len(Trim(fd.email)) <= 255
  /\ IsString(fd.password) /\ Len(fd.password) >= 8

PassShort == <<"a","b","c">>

PassOnePadded == <<" ">> \o PassOne \o <<" ">>

\* what the registration form is filled with: a name that is valid, too
\* short or absent, a password that is valid or too short, a role that is
\* absent or outside the enumeration, a confirmation that repeats the
\* password, differs from it or is absent
FormRegInputs ==
  {Submission(n, u, EmailC, pw, r, c) :
     n \in {NameJo, <<"J">>, Undefined}, u \in {HandleAmy, HandleBob},
     pw \in {PassOne, PassShort},
     r \in {Undefined, <<"a","d","m","i","n">>}, c \in {PassOne, PassTwo, PassShort, Undefined}}

\* what the login forms are filled with
FormLoginInputs ==
  {[email |-> e, password |-> pw] :
     e \in {EmailARaw, EmailC},
     pw \in {PassOne, PassOnePadded, PassTwo, PassShort}}

\* the argument of the server action the form of p is calling
FormCall(p, action) == IF form[p].sent = action THEN {form[p].data} ELSE {}

\* the registration form with a submit button that is never disabled
RegistrationOnSubmitButtonEnabled(p, inputs) ==
  /\ pc[p] = "idle"
  /\ form[p].sent = "none"
  /\ \E raw \in inputs :
       LET parsed == SafeParseRegisterWithConfirm(raw)
       IN  /\ form' = [form EXCEPT ![p] =
                         IF parsed.issues # <<>>
                           THEN [raw |-> raw, errors |-> parsed.issues,
                                 data |-> NoForm, sent |-> "none"]
                           ELSE [raw |-> raw, errors |-> <<>>,
                                 data |-> parsed.data, sent |-> "register"]]
           /\ loading' = (parsed.issues = <<>>)
  /\ UNCHANGED <<db, pc, formData, validatedData, rows, user, hashPassword,
                 caught, calls, result, inserted, started>>

\* Registration.tsx: the submit button is disabled while loading. Otherwise
\* handleSubmit runs the resolver on the values; with issues the field
\* errors are set and onSubmit is not called, without them onSubmit sets
\* loading and calls registrationAction with the parsed data
RegistrationOnSubmit(p, inputs) ==
  /\ ~loading
  /\ pc[p] = "idle"
  /\ form[p].sent = "none"
  /\ \E raw \in inputs :
       LET parsed == SafeParseRegisterWithConfirm(raw)
       IN  /\ form' = [form EXCEPT ![p] =
                         IF parsed.issues # <<>>
                           THEN [raw |-> raw, errors |-> parsed.issues,
                                 data |-> NoForm, sent |-> "none"]
                           ELSE [raw |-> raw, errors |-> <<>>,
                                 data |-> parsed.data, sent |-> "register"]]
           /\ loading' = (parsed.issues = <<>>)
  /\ UNCHANGED <<db, pc, formData, validatedData, rows, user, hashPassword,
                 caught, calls, result, inserted, started>>

\* the call of onSubmit returns its outcome: the toast, then the finally
\* block resets loading
OnSubmitReturns(p) ==
  /\ form[p].sent = "register"
  /\ pc[p] = "done"
  /\ form' = [form EXCEPT ![p].sent = "returned"]
  /\ loading' = FALSE
  /\ UNCHANGED <<db, pc, formData, validatedData, rows, user, hashPassword,
                 caught, calls, result, inserted, started>>

\* the call of onSubmit rejects, the request or its response being lost:
\* the catch block, then the finally block resets loading
OnSubmitCatches(p) ==
  /\ form[p].sent = "register"
  /\ form' = [form EXCEPT ![p].sent = "threw"]
  /\ loading' = FALSE
  /\ UNCHANGED <<db, pc, formData, validatedData, rows, user, hashPassword,
                 caught, calls, result, inserted, started>>

\* Login.tsx: handleFormSubmit lowercases and trims the email, trims the
\* password and calls loginUserAction; no rule set is consulted
HandleFormSubmit(p, inputs) ==
  /\ pc[p] = "idle"
  /\ form[p].sent = "none"
  /\ \E raw \in inputs :
       form' = [form EXCEPT ![p] =
                  [raw |-> raw, errors |-> <<>>,
                   data |-> [email |-> Trim(ToLowerCase(raw.email)),
                             password |-> Trim(raw.password)],
                   sent |-> "login"]]
  /\ UNCHANGED <<db, pc, formData, validatedData, rows, user, hashPassword,
                 caught, calls, result, inserted, started, loading>>

\* the login form built on useForm: handleSubmit runs the resolver of
\* loginUserSchema; without issues onSubmit calls loginUserAction with the
\* parsed data
LoginOnSubmit(p, inputs) ==
  /\ pc[p] = "idle"
  /\ form[p].sent = "none"
  /\ \E raw \in inputs :
       LET parsed == SafeParseLogin(raw)
       IN  form' = [form EXCEPT ![p] =
                      IF parsed.issues # <<>>
                        THEN [raw |-> raw, errors |-> parsed.issues,
                              data |-> NoForm, sent |-> "none"]
                        ELSE [raw |-> raw, errors |-> <<>>,
                              data |-> parsed.data, sent |-> "login"]]
  /\ UNCHANGED <<db, pc, formData, validatedData, rows, user, hashPassword,
                 caught, calls, result, inserted, started, loading>>

NextF ==
  \/ RegistrationOnSubmit("c1", FormRegInputs)
  \/ HandleFormSubmit("c1", FormLoginInputs)
  \/ LoginOnSubmit("c1", FormLoginInputs)
  \/ RegistrationAction("c1", FormCall("c1", "register"))
  \/ RegSelectFails("c1")
  \/ RegSelectReturns("c1")
  \/ RegHashFails("c1")
  \/ RegHashReturns("c1")
  \/ RegInsertFails("c1")
  \/ RegInsertReturns("c1")
  \/ LoginUserAction("c1", FormCall("c1", "login"))
  \/ LoginSelectFails("c1")
  \/ LoginSelectReturns("c1")
  \/ LoginVerifyFails("c1")
  \/ LoginVerifyReturns("c1")
  \/ OnSubmitReturns("c1")
  \/ OnSubmitCatches("c1")

SpecF == InitV /\ [][NextF]_vars

\* the form of p was submitted as a registration
IsRegForm(p) == "confirmPassword" \in DOMAIN form[p].raw

\* the form of p was submitted as a login
IsLoginForm(p) == form[p].raw # NoForm /\ ~IsRegForm(p)

\* every field of the submission has the type its rule asks for
WellTyped(raw) ==
  /\ IsString(raw.name) /\ IsString(raw.userName) /\ IsString(raw.email)
  /\ IsString(raw.password) /\ IsString(raw.confirmPassword)
  /\ raw.role \in RoleValues \cup {Undefined}

\* the positions of the equality rule's error among the form's errors
MismatchErrors(p) ==
  {i \in 1..Len(form[p].errors) : form[p].errors[i].message = MsgConfirm}

\* C14 as stated: the equality rule is evaluated only on the rule set with
\* confirmPassword and only after all per-field rules have passed, so its
\* error "Passwords don't match" is the single error of the submission, on
\* the confirmPassword path.
C14_ConfirmOnlyAfterFieldRules ==
  \A p \in Procs :
    /\ IsRegForm(p) =>
         (MismatchErrors(p) # {} =>
            form[p].errors = <<Issue("confirmPassword", MsgConfirm)>>)
    /\ result[p].message # MsgConfirm

\* C14: the equality rule is evaluated only on the rule set with
\* confirmPassword, and there whenever every field has the type its rule
\* asks for, also when a length, pattern or format rule has failed; when
\* password differs from confirmPassword its one error "Passwords don't
\* match" comes after the field errors and is attached to the
\* confirmPassword path, never to password.
C14_ConfirmAfterTypedFields ==
  \A p \in Procs :
    /\ IsRegForm(p) =>
         /\ Cardinality(MismatchErrors(p)) <= 1
         /\ \A i \in MismatchErrors(p) :
              /\ form[p].errors[i].path = "confirmPassword"
              /\ i = Len(form[p].errors)
         /\ MismatchErrors(p) # {}
              <=> (/\ WellTyped(form[p].raw)
                   /\ form[p].raw.password # form[p].raw.confirmPassword)
         /\ form[p].sent = "register"
              => form[p].data.password = form[p].data.confirmPassword
    /\ result[p].message # MsgConfirm

\* a submission with a password that is too short and a confirmation that
\* differs from it: the form holds the length error and, last, the
\* equality error
C14_Witness ==
  \E p \in Procs :
    /\ IsRegForm(p)
    /\ Len(form[p].raw.password) < 8
    /\ form[p].raw.confirmPassword # form[p].raw.password
    /\ \E i \in 1..Len(form[p].errors) :
         form[p].errors[i] = Issue("password", MsgPasswordMin)
    /\ form[p].errors[Len(form[p].errors)] = Issue("confirmPassword", MsgConfirm)

\* C18: the login data that reaches the storage lookup and the secret
\* check is sanitized for every login submission: the email trimmed and
\* lowercased, the plaintext secret trimmed.
C18_LoginDataSanitized ==
  \A p \in Procs :
    (IsLogin(p) /\ IsLoginForm(p)) =>
      /\ formData[p].email = ToLowerCase(Trim(form[p].raw.email))
      /\ formData[p].password = Trim(form[p].raw.password)

\* request p passed its duplicate check with no record and has not
\* completed its insert
PassedCheckNotInserted(p) ==
  /\ IsRegistration(p)
  /\ pc[p] \in {"reg_hash", "reg_insert"}
  /\ rows[p] = {}

\* C21: the duplicate check is not atomic with the insert. While one call
\* has passed its check and has not inserted yet, the duplicate query of
\* another call with the same sanitized email reads the table alone: with no
\* such row stored it returns no record and that call goes on to hash too.
C21_DuplicateCheckNotAtomic ==
  [][\A p, q \in Procs :
       (/\ p # q
        /\ PassedCheckNotInserted(p)
        /\ RegSelectAnswered(q)
        /\ validatedData[q].email = validatedData[p].email
        /\ SelectByEmailOrUserName(db, validatedData[q].email,
                                   validatedData[q].userName) = {})
         => /\ rows'[q] = {}
            /\ pc'[q] = "reg_hash"
            /\ PassedCheckNotInserted(p)']_vars

\* two calls with the same sanitized email have both passed the duplicate
\* check with no record, and neither has inserted
C21_Witness ==
  \E p, q \in Procs :
    /\ p # q
    /\ PassedCheckNotInserted(p)
    /\ PassedCheckNotInserted(q)
    /\ validatedData[p].email = validatedData[q].email
    /\ \A r \in db : r.email # validatedData[p].email

\* how many storage queries request p has issued
SelectCount(p) ==
  Cardinality({i \in 1..Len(calls[p]) : calls[p][i] = "select"})

\* C22: a registration issues exactly one storage query, for the rows with
\* the email or the handle, and decides from the first returned row only:
\* the email collision exactly when that row's email is the (sanitized)
\* submitted email, the handle collision otherwise; one collision is
\* reported per call, also when several stored rows match.
C22_OneQueryFirstRecordOnly ==
  [][\A p \in Procs :
       /\ RegSelectAnswered(p) =>
            LET e == validatedData[p].email
                u == validatedData[p].userName
                matching == {r \in db : r.email = e \/ r.userName = u}
            IN  /\ rows'[p] = matching
                /\ matching = {} => result'[p] = NoResult
                /\ matching # {} =>
                     /\ user'[p] \in matching
                     /\ pc'[p] = "done"
                     /\ result'[p].status = "ERROR"
                     /\ result'[p].message \in {MsgEmailExists, MsgUserNameExists}
                     /\ (result'[p].message = MsgEmailExists) <=> (user'[p].email = e)
       /\ (IsRegistration(p) /\ Len(calls[p]) >= 2) => SelectCount(p) = 1
       /\ (IsRegistration(p) /\ pc[p] # "idle" /\ pc'[p] # "idle")
            => SelectCount(p)' = SelectCount(p)]_vars

\* a registration whose query returned two rows, one with its email and one
\* with its handle, reported the handle collision alone
C22_Witness ==
  \E p \in Procs :
    /\ pc[p] = "done"
    /\ IsRegistration(p)
    /\ Cardinality(rows[p]) = 2
    /\ \E r \in rows[p] : r.email = validatedData[p].email
    /\ user[p].email # validatedData[p].email
    /\ result[p] = Outcome("ERROR", MsgUserNameExists)
    /\ SelectCount(p) = 1

\* ------------------------------------------------------------------------
\* The registration form over several submissions
\* ------------------------------------------------------------------------

\* what the form is submitted with: a new account, an account whose email
\* and handle are taken, and values the resolver rejects
PageInputs ==
  {Submission(NameJo, HandleAmy, EmailC, PassOne, Undefined, PassOne),
   Submission(NameJo, HandleBob, EmailARaw, PassOne, Undefined, PassOne),
   Submission(NameJo, HandleAmy, EmailC, PassShort, Undefined, PassShort)}

NextR ==
  \E p \in Procs :
    \/ RegistrationOnSubmit(p, PageInputs)
    \/ RegistrationAction(p, FormCall(p, "register"))
    \/ RegSelectFails(p)
    \/ RegSelectReturns(p)
    \/ RegHashFails(p)
    \/ RegHashReturns(p)
    \/ RegInsertFails(p)
    \/ RegInsertReturns(p)
    \/ OnSubmitReturns(p)
    \/ OnSubmitCatches(p)

SpecR == InitV /\ [][NextR]_vars

\* the form awaits the registrationAction call of request p
InFlight(p) == form[p].sent = "register"

EmailCUpper == <<"C","@","B",".","c","o">>

\* accounts registered through the form: the email in two casings, a
\* password without and with blanks around it
EndToEndRegInputs ==
  {Submission(NameJo, HandleAmy, e, pw, Undefined, pw) :
     e \in {EmailC, EmailCUpper}, pw \in {PassOne, PassOnePadded}}

\* what the login forms are filled with afterwards
EndToEndLoginInputs ==
  {[email |-> e, password |-> pw] :
     e \in {EmailC, EmailCUpper}, pw \in {PassOne, PassOnePadded}}

NextE ==
  \E p \in Procs :
    \/ RegistrationOnSubmit(p, EndToEndRegInputs)
    \/ HandleFormSubmit(p, EndToEndLoginInputs)
    \/ LoginOnSubmit(p, EndToEndLoginInputs)
    \/ RegistrationAction(p, FormCall(p, "register"))
    \/ RegSelectFails(p)
    \/ RegSelectReturns(p)
    \/ RegHashFails(p)
    \/ RegHashReturns(p)
    \/ RegInsertFails(p)
    \/ RegInsertReturns(p)
    \/ LoginUserAction(p, FormCall(p, "login"))
    \/ LoginSelectFails(p)
    \/ LoginSelectReturns(p)
    \/ LoginVerifyFails(p)
    \/ LoginVerifyReturns(p)
    \/ OnSubmitReturns(p)
    \/ OnSubmitCatches(p)

SpecE == InitV /\ [][NextE]_vars

\* the registration of request p has returned SUCCESS
Registered(p) ==
  /\ IsRegForm(p)
  /\ pc[p] = "done"
  /\ result[p] = Outcome("SUCCESS", MsgRegistered)

\* the login form of q holds the email of the registration form of p, in
\* any casing, and the same password
SameCredentials(p, q) ==
  /\ ToLowerCase(Trim(form[q].raw.email)) = ToLowerCase(Trim(form[p].raw.email))
  /\ form[q].raw.password = form[p].raw.password

\* C23: register-then-login works end to end. Once a registration with
\* email e and password p has returned SUCCESS, a login submitted through
\* a login form with e in any casing and the same p finds the record and
\* returns {SUCCESS, "Login Successful"}, for every p that registration
\* accepts, blanks around it included, unless a collaborator fails.
C23_RegisterThenLogin ==
  [][\A p, q \in Procs :
       (/\ Registered(p)
        /\ IsLoginForm(q)
        /\ IsLogin(q)
        /\ SameCredentials(p, q)
        /\ caught'[q] = "none")
         => /\ (pc[q] = "login_select" /\ pc'[q] # "login_select")
                 => user'[q] = InsertValues(validatedData[p], hashPassword[p])
            /\ (pc[q] # "done" /\ pc'[q] = "done")
                 => result'[q] = Outcome("SUCCESS", MsgLoggedIn)]_vars

\* the stored secret is the argon2 hash of the plaintext under some salt
IsHashOf(stored, plain) ==
  \E salt \in Salts : stored = PhcPrefix \o <<salt, "$">> \o Digest(salt, plain)

\* C24: a login returns {SUCCESS, "Login Successful"} only if its lookup
\* returned a stored row with the submitted email whose secret passed the
\* guard and verifies against the submitted password; every other login
\* that ends has status ERROR.
C24_LoginSuccessOnlyOnMatch ==
  [][\A p \in Procs :
       /\ (pc[p] = "login_select" /\ pc'[p] # "login_select"
             /\ caught'[p] # "select_failed")
            => /\ rows'[p] = {r \in db : r.email = formData[p].email}
               /\ (rows'[p] # {} => user'[p] \in rows'[p])
       /\ (IsLogin(p) /\ pc[p] # "done" /\ pc'[p] = "done")
            => /\ result'[p].status \in {"SUCCESS", "ERROR"}
               /\ result'[p].status = "SUCCESS"
                    => /\ result'[p] = Outcome("SUCCESS", MsgLoggedIn)
                       /\ caught'[p] = "none"
                       /\ user[p] \in rows[p]
                       /\ user[p].email = formData[p].email
                       /\ user[p].password # Null
                       /\ user[p].password # <<>>
                       /\ user[p].password[1] = "$"
                       /\ IsHashOf(user[p].password, formData[p].password)]_vars

\* one login matched the stored hash and succeeded; another found the same
\* kind of row with a different password and got ERROR
C24_Witness ==
  \E p, q \in Procs :
    /\ pc[p] = "done" /\ IsLogin(p)
    /\ result[p] = Outcome("SUCCESS", MsgLoggedIn)
    /\ pc[q] = "done" /\ IsLogin(q)
    /\ rows[q] # {}
    /\ ~IsHashOf(user[q].password, formData[q].password)
    /\ result[q].status = "ERROR"

\* the registrations of p and q share the sanitized email or the handle
ShareIdentity(p, q) ==
  \/ validatedData[p].email = validatedData[q].email
  \/ validatedData[p].userName = validatedData[q].userName

\* C25: with the users table enforcing uniqueness of email and of handle,
\* of concurrent registrations that share the sanitized email or the handle
\* at most one returns SUCCESS, however their steps interleave, and no two
\* stored rows ever share an email or a handle.
C25_AtMostOneSuccessPerIdentity ==
  /\ \A r1, r2 \in db :
       r1 # r2 => (r1.email # r2.email /\ r1.userName # r2.userName)
  /\ \A p, q \in Procs :
       (/\ p # q
        /\ IsRegistration(p) /\ IsRegistration(q)
        /\ Len(calls[p]) >= 2 /\ Len(calls[q]) >= 2
        /\ ShareIdentity(p, q))
         => ~(result[p].status = "SUCCESS" /\ result[q].status = "SUCCESS")
  /\ \A p \in Procs :
       (IsRegistration(p) /\ result[p].status = "SUCCESS")
         => Cardinality({r \in db : \/ r.email = validatedData[p].email
                                    \/ r.userName = validatedData[p].userName}) = 1

\* two registrations with the same email both passed the duplicate check;
\* one returned SUCCESS, the other lost at the insert
C25_Witness ==
  \E p, q \in Procs :
    /\ p # q
    /\ validatedData[p].email = validatedData[q].email
    /\ pc[p] = "done" /\ result[p] = Outcome("SUCCESS", MsgRegistered)
    /\ pc[q] = "done" /\ IsRegistration(q)
    /\ calls[q] = RegistrationSteps
    /\ caught[q] = "unique_violation"
    /\ result[q].status = "ERROR"

\* how many inserts request p has issued
InsertCount(p) ==
  Cardinality({i \in 1..Len(calls[p]) : calls[p][i] = "insert"})

\* C26: a registration returns SUCCESS if and only if its own insert
\* completed: the step that ends the call with SUCCESS is the one that adds
\* its row, the step that ends it with ERROR adds nothing, and a call
\* issues at most one insert.
C26_SuccessIffInsertCompleted ==
  [][\A p \in Procs :
       /\ (pc[p] # "done" /\ pc'[p] = "done" /\ IsRegistration(p)')
            => /\ (result'[p].status = "SUCCESS")
                    <=> (pc[p] = "reg_insert" /\ db' # db)
               /\ result'[p].status = "SUCCESS"
                    => /\ db' = db \cup {InsertValues(validatedData[p], hashPassword[p])}
                       /\ InsertValues(validatedData[p], hashPassword[p]) \notin db
                       /\ InsertCount(p) = 1
               /\ result'[p].status = "ERROR" => db' = db
       /\ InsertCount(p)' <= 1]_vars

\* one registration inserted its row and returned SUCCESS; another issued
\* its insert, which failed, and returned ERROR with no row of its own
C26_Witness ==
  \E p, q \in Procs :
    /\ pc[p] = "done" /\ result[p] = Outcome("SUCCESS", MsgRegistered)
    /\ InsertValues(validatedData[p], hashPassword[p]) \in db
    /\ pc[q] = "done" /\ IsRegistration(q)
    /\ InsertCount(q) = 1
    /\ result[q].status = "ERROR"
    /\ InsertValues(validatedData[q], hashPassword[q]) \notin db

\* ------------------------------------------------------------------------
\* registrationAction called with any confirmPassword
\* ------------------------------------------------------------------------

\* arguments of registrationAction that differ in confirmPassword: equal to
\* the password, different from it, absent
ConfirmInputs ==
  {Submission(NameJo, HandleAmy, e, pw, Undefined, c) :
     e \in {EmailARaw, EmailC}, pw \in {PassOne, PassShort},
     c \in {PassOne, PassTwo, Undefined}}

NextC ==
  \E p \in Procs :
    \/ RegistrationAction(p, ConfirmInputs)
    \/ RegSelectFails(p)
    \/ RegSelectReturns(p)
    \/ RegHashFails(p)
    \/ RegHashReturns(p)
    \/ RegInsertFails(p)
    \/ RegInsertReturns(p)

SpecC == InitV /\ [][NextC]_vars

\* the submission without what it says in confirmPassword
WithoutConfirm(fd) == [fd EXCEPT !.confirmPassword = Undefined]

IsTrimmed(s) ==
  s = <<>> \/ (s[1] \notin WhiteSpace /\ s[Len(s)] \notin WhiteSpace)

\* C28: every row a registration inserted carries the sanitized values, not
\* the submitted ones: a trimmed name of 2..255 characters, a trimmed handle
\* of 3..255 characters out of [A-Za-z0-9_-], a trimmed lower-case email and
\* a role out of applicant and employer.
C28_StoredRowsSanitized ==
  \A r \in db \ ValTable :
    /\ IsTrimmed(r.name) /\ Len(r.name) \in 2..255
    /\ IsTrimmed(r.userName) /\ Len(r.userName) \in 3..255
    /\ \A i \in 1..Len(r.userName) : r.userName[i] \in AlnumChars \cup {"_", "-"}
    /\ IsTrimmed(r.email)
    /\ \A i \in 1..Len(r.email) : r.email[i] \notin UpperChars
    /\ r.role \in {Applicant, Employer}
    /\ \E p \in Procs :
         /\ result[p] = Outcome("SUCCESS", MsgRegistered)
         /\ r.name = Trim(formData[p].name)
         /\ r.userName = Trim(formData[p].userName)
         /\ r.email = ToLowerCase(Trim(formData[p].email))
         /\ r.role = IF formData[p].role = Undefined THEN Applicant
                                                     ELSE formData[p].role

\* a row was inserted for a submission whose name, handle and email had
\* blanks around them, the email capitals too, and whose role was absent
C28_Witness ==
  \E r \in db \ ValTable : \E p \in Procs :
    /\ result[p] = Outcome("SUCCESS", MsgRegistered)
    /\ r.email = validatedData[p].email
    /\ formData[p].name # r.name
    /\ formData[p].userName # r.userName
    /\ formData[p].email # r.email
    /\ \E i \in 1..Len(formData[p].email) : formData[p].email[i] \in UpperChars
    /\ formData[p].role = Undefined
    /\ r.role = Applicant

\* ------------------------------------------------------------------------
\* Calls whose collaborators always answer
\* ------------------------------------------------------------------------

\* a collaborator call of request p returns or raises
Respond(p) ==
  \/ RegSelectFails(p)
  \/ RegSelectReturns(p)
  \/ RegHashFails(p)
  \/ RegHashReturns(p)
  \/ RegInsertFails(p)
  \/ RegInsertReturns(p)
  \/ LoginSelectFails(p)
  \/ LoginSelectReturns(p)
  \/ LoginVerifyFails(p)
  \/ LoginVerifyReturns(p)

NextT ==
  \E p \in Procs :
    \/ RegistrationAction(p, RegInputs)
    \/ LoginUserAction(p, LoginInputs)
    \/ Respond(p)

\* every pending collaborator call is answered in the end
SpecT == Init /\ [][NextT]_vars /\ \A p \in Procs : WF_vars(Respond(p))

\* no collaborator call occurs twice among the calls of request p
NoCallRepeated(p) ==
  \A i, j \in 1..Len(calls[p]) : calls[p][i] = calls[p][j] => i = j

\* C29: provided every collaborator call returns or raises in the end,
\* every registrationAction and loginUserAction call returns an outcome in
\* the end, and no call issues a collaborator call a second time.
C29_EveryCallReturns ==
  /\ \A p \in Procs :
       (pc[p] \notin {"idle", "done"})
         ~> (pc[p] = "done" /\ result[p].status \in {"SUCCESS", "ERROR"})
  /\ [](\A p \in Procs : NoCallRepeated(p) /\ Len(calls[p]) <= 4)

\* a registration returned after its four steps and a login after its two
C29_Witness ==
  \E p, q \in Procs :
    /\ pc[p] = "done" /\ calls[p] = RegistrationSteps
    /\ pc[q] = "done" /\ calls[q] = <<"select", "verify">>

====
